---------------------------- MODULE Spec2Model ----------------------------
(***************************************************************************)
(* The payment-confirmation state machine of the booking page              *)
(* (src/src/pages/BookAppointment.tsx): one browser tab, its localStorage  *)
(* slot "pending_payment_state", the BookAppointment component's React     *)
(* state and refs, the interval timers it creates, the payment status      *)
(* requests it has in flight, and the backend's status of every payment.   *)
(*                                                                         *)
(* JavaScript runs one handler at a time, so every action is one           *)
(* synchronous stretch of a handler: from its start, or from the point     *)
(* where an awaited promise settles, up to the next await or the return.   *)
(*                                                                         *)
(* A page load starts a new JavaScript context: the timers and the pending *)
(* continuations of the previous page are gone, localStorage stays.        *)
(* Returning to the booking page is modelled as a page load.  Leaving the  *)
(* page inside the single-page application (Unmount) discards the          *)
(* component's state, shown here as its initial values, while its refs,    *)
(* timers and pending continuations live on; React ignores the state       *)
(* updates of an unmounted component.                                      *)
(***************************************************************************)
EXTENDS Integers, FiniteSets

\* ------------------------------------------------------------------ bounds

\* Status requests that may be awaiting their response at the same time.
MaxInFlight == 2

\* User actions that start new work in one behaviour: submissions that reach
\* the backend, retry clicks and page loads.
MaxUserActions == 2

\* A timer's first and last MaxOverlap ticks may find status requests still
\* in flight; the ticks between them are explored only when they find none.
MaxOverlap == 2

\* Clock instants later than the 24 hour limit (see Instants).
MaxLate == 1

\* Backend calls, other than status requests, that may be awaiting their
\* response at the same time (the session model).
MaxApiCalls == 2

\* Calls of the SDK's load() in one lifetime of the document (the SDK
\* model).
MaxSdkLoads == 3

\* withLoading promises, and the height the loading counter may reach (the
\* loading model).
MaxWithLoading == 3

MaxLoadingCount == 4

\* ------------------------------------------------------- program constants

\* const maxPolls = 30
maxPolls == 30

\* 24 * 60 * 60 * 1000 ms, the age above which a stored record is stale
StaleAfterMs == 24 * 60 * 60 * 1000

\* ------------------------------------------------------------------- state

VARIABLES
    now,                \* Date.now(), in ms
    store,              \* localStorage[PAYMENT_STATE_KEY]: a record or NoRecord
    backend,            \* the status the backend has reported of each payment order
    mounted,            \* the BookAppointment component is mounted
    location,           \* the route shown
    paymentState,       \* useState: PendingPaymentState | null
    paymentStatus,      \* useState: idle | pending | verifying | success | failed
    verificationError,  \* useState: the message shown, or "null"
    isSubmitting,       \* useState
    intervalRef,        \* verificationPollIntervalRef.current: a timer id, or 0 for null
    timers,             \* the interval timers that are active
    inflight,           \* the status requests awaiting their response, by slot
    submit,             \* where handleSubmit is suspended
    navPending,         \* the setTimeout(navigate("/my-appointments"), 2000) is armed
    mountCheck,         \* what checkPendingPayment did on this page load
    successFor,         \* the payment whose COMPLETED answer set success, or 0
    exhaustedAfter,     \* the number of queries a timer had issued when it
                        \* cancelled itself at the attempt bound, or 0
    userActions,        \* user actions that started new work so far
    nextId              \* the number of the next booking submission

vars == <<now, store, backend, mounted, location, paymentState, paymentStatus,
          verificationError, isSubmitting, intervalRef, timers, inflight,
          submit, navPending, mountCheck, successFor, exhaustedAfter,
          userActions, nextId>>

\* The state of the application around the booking page: the session kept
\* in localStorage and the backend calls in flight (src/src/App.tsx,
\* src/src/lib/auth.ts), the checkout SDK singleton of the payments page
\* (src/unnamed/part_003) and the global loading counter
\* (src/src/contexts/LoadingContext.tsx).  Each has a specification of its
\* own below; the booking page's specification leaves them alone.
VARIABLES
    authToken,          \* localStorage['authToken'] is set
    storedUser,         \* localStorage['user'] is set
    pathname,           \* window.location.pathname
    apiCalls,           \* the backend calls awaiting their response, by slot
    sdkPage,            \* the page component mounted in this document
    cashfreeInstance,   \* let cashfreeInstance: a handle, or 0 for null
    sdkLoads,           \* the calls of load() made in this document
    sdkCalls,           \* each call of load(): who awaits it, what it gave
    sdkHandles,         \* the handles callers have been given to check out with
    isProcessing,       \* useState of the payments page
    loadingCount,       \* useState of LoadingProvider
    isLoading,          \* useState of LoadingProvider
    withPromises        \* the promises handed to withLoading, by number

authVars == <<authToken, storedUser, pathname, apiCalls>>

sdkVars == <<sdkPage, cashfreeInstance, sdkLoads, sdkCalls, sdkHandles, isProcessing>>

loadingVars == <<loadingCount, isLoading, withPromises>>

shellVars == <<authVars, sdkVars, loadingVars>>

\* ----------------------------------------------------------------- values

NoRecord == [none |-> TRUE]

NoReq == [none |-> TRUE]

Slots == 1..MaxInFlight

Submissions == 1..MaxUserActions

\* Server-assigned identifiers of the n-th submission of a behaviour; the
\* three kinds of identifier never coincide.
BookingIdFor(n) == 100 + n

PaymentIdFor(n) == 500 + n

SessionIdFor(n) == 900 + n

PaymentIds == {PaymentIdFor(n) : n \in Submissions}

BookingTypes == {"appointment", "operation"}

\* The instants the clock can show: 0 and 24 h plus 0..MaxLate ms, so that a
\* record can be younger than, exactly as old as and older than the limit.
Instants == {0} \cup {StaleAfterMs + k : k \in 0..MaxLate}

IdleSubmit == [pc |-> "idle", n |-> 0, bookingType |-> "appointment", bookingId |-> 0]

\* ------------------------------------------------- pure parts of the code

\* Variant of PendingStateFor that stores the booking id as the payment id
\* and the payment id as the booking id (C19 fails with it).
PendingStateIdsSwapped(n, bookingType, t) ==
    [bookingId |-> PaymentIdFor(n), bookingType |-> bookingType,
     paymentId |-> BookingIdFor(n), paymentSessionId |-> SessionIdFor(n),
     timestamp |-> t]

\* interface PendingPaymentState, as built by handleSubmit
PendingStateFor(n, bookingType, t) ==
    [bookingId |-> BookingIdFor(n), bookingType |-> bookingType,
     paymentId |-> PaymentIdFor(n), paymentSessionId |-> SessionIdFor(n),
     timestamp |-> t]

\* Variant of IsStale that also discards a record of exactly the limit age
\* (C8 fails with it).
IsStaleAtLimit(rec, t) == t - rec.timestamp >= StaleAfterMs

\* stateAge > 24 * 60 * 60 * 1000
IsStale(rec, t) == t - rec.timestamp > StaleAfterMs

\* Variant of StatusQueryKey that sends the checkout session id (C7 fails
\* with it).
StatusQueryBySession(rec) == rec.paymentSessionId

\* verifyPaymentStatus(pendingState.paymentId): the id the status request
\* carries
StatusQueryKey(rec) == rec.paymentId

\* Variant of RetryQueryKey that sends the booking id (C17 fails with it).
RetryQueryByBooking(rec) == rec.bookingId

\* verifyPaymentStatus(paymentState.paymentId) in handleRetryPayment: the id
\* the status request carries, and the one polling is resumed with
RetryQueryKey(rec) == rec.paymentId

\* Variant of AttemptsExhausted that stops one poll late (C1 fails with it).
AttemptsExhaustedLate(pollCount) == pollCount > maxPolls

\* pollCount >= maxPolls
AttemptsExhausted(pollCount) == pollCount >= maxPolls

\* disabled={isSubmitting || paymentStatus === "verifying" || paymentStatus === "success"}
SubmitDisabled ==
    isSubmitting \/ paymentStatus = "verifying" \/ paymentStatus = "success"

\* Variant of RetryVisible without the "Check Payment Status" button of the
\* pending banner (C24 fails with it).
RetryVisibleOnlyFailed ==
    /\ paymentState # NoRecord
    /\ paymentStatus = "failed"

\* The two buttons wired to handleRetryPayment: "Retry Payment Verification"
\* (failed) and "Check Payment Status" (pending), both only with a record.
RetryVisible ==
    /\ paymentState # NoRecord
    /\ paymentStatus \in {"failed", "pending"}

\* useState("idle"); the URL's search parameters are read by useSearchParams
\* and never used.
StatusOnLoad(urlStatus) == "idle"

\* Variant of StatusAfterCheckout that takes checkout's return for a payment
\* (C5 fails with it).
StatusAfterCheckoutTrusted == "success"

\* setPaymentStatus("pending") after cashfree.checkout(checkoutOptions)
StatusAfterCheckout == "pending"

\* Variant of StatusAfterCheckoutError that leaves the page waiting for a
\* payment (C23 fails with it).
StatusAfterCheckoutErrorPending == "pending"

\* setPaymentStatus("failed") in the catch around load() and checkout()
StatusAfterCheckoutError == "failed"

\* Variant of HasSession that takes any createOrder response for an order
\* with a session (C22 fails with it).
HasSessionUnchecked(result) == result # "error"

\* The negation of !orderData || !orderData.payment_session_id, for a
\* createOrder call that returned result
HasSession(result) == result = "ok"

\* Variant of VerifyOutcome that never calls clearPaymentState (C3 fails
\* with it).
VerifyOutcomeKeepingRecord(resp) ==
    CASE resp = "COMPLETED" ->
            [status |-> "success", error |-> "keep", clear |-> FALSE, verified |-> TRUE]
      [] resp = "FAILED" ->
            [status |-> "failed", error |-> "payment_failed", clear |-> FALSE, verified |-> FALSE]
      [] resp = "ERROR" ->
            [status |-> "failed", error |-> "request_error", clear |-> FALSE, verified |-> FALSE]
      [] OTHER ->
            [status |-> "pending", error |-> "keep", clear |-> FALSE, verified |-> FALSE]

\* Variant of VerifyOutcome that calls clearPaymentState on an answer that is
\* neither COMPLETED nor FAILED (C12 fails with it).
VerifyOutcomeClearingOnPending(resp) ==
    CASE resp = "COMPLETED" ->
            [status |-> "success", error |-> "keep", clear |-> TRUE, verified |-> TRUE]
      [] resp = "FAILED" ->
            [status |-> "failed", error |-> "payment_failed", clear |-> TRUE, verified |-> FALSE]
      [] resp = "ERROR" ->
            [status |-> "failed", error |-> "request_error", clear |-> FALSE, verified |-> FALSE]
      [] OTHER ->
            [status |-> "pending", error |-> "keep", clear |-> TRUE, verified |-> FALSE]

\* Variant of VerifyOutcome that calls clearPaymentState, and with it cancels
\* the timer, when the request fails (C13 fails with it).
VerifyOutcomeClearingOnError(resp) ==
    CASE resp = "COMPLETED" ->
            [status |-> "success", error |-> "keep", clear |-> TRUE, verified |-> TRUE]
      [] resp = "FAILED" ->
            [status |-> "failed", error |-> "payment_failed", clear |-> TRUE, verified |-> FALSE]
      [] resp = "ERROR" ->
            [status |-> "failed", error |-> "request_error", clear |-> TRUE, verified |-> FALSE]
      [] OTHER ->
            [status |-> "pending", error |-> "keep", clear |-> FALSE, verified |-> FALSE]

\* The branches of verifyPaymentStatus after the await: the status it sets,
\* the message it sets ("keep" when it sets none), whether it calls
\* clearPaymentState, and what it returns.
VerifyOutcome(resp) ==
    CASE resp = "COMPLETED" ->
            [status |-> "success", error |-> "keep", clear |-> TRUE, verified |-> TRUE]
      [] resp = "FAILED" ->
            [status |-> "failed", error |-> "payment_failed", clear |-> TRUE, verified |-> FALSE]
      [] resp = "ERROR" ->
            [status |-> "failed", error |-> "request_error", clear |-> FALSE, verified |-> FALSE]
      [] OTHER ->
            [status |-> "pending", error |-> "keep", clear |-> FALSE, verified |-> FALSE]

\* ----------------------------------------------------------------- helpers

\* clearInterval(verificationPollIntervalRef.current)
ClearInterval(ts, ref) == {t \in ts : t.id # ref}

\* The id setInterval returns: one no live timer and no ref holds.
FreshTimerId(ts, ref) ==
    CHOOSE i \in 1..(Cardinality(ts) + 2) :
        /\ i # ref
        /\ \A t \in ts : t.id # i

\* Variant of StartedTimers that creates the new timer without cancelling
\* the one the ref names (C14 fails with it).
StartedTimersKeepingOld(ts, ref, pid) ==
    ts \cup {[id |-> FreshTimerId(ts, ref), pid |-> pid, pollCount |-> 0]}

\* startPaymentVerification(paymentId): the timers after it
StartedTimers(ts, ref, pid) ==
    ClearInterval(ts, ref)
        \cup {[id |-> FreshTimerId(ts, ref), pid |-> pid, pollCount |-> 0]}

FreeSlots == {s \in Slots : inflight[s] = NoReq}

\* The status requests a tick may find in flight and still be explored.
Overlap(pollCount) ==
    IF pollCount < MaxOverlap \/ pollCount + MaxOverlap >= maxPolls
    THEN MaxInFlight - 1
    ELSE 0

FirstFreeSlot == CHOOSE s \in FreeSlots : \A u \in FreeSlots : s <= u

\* paymentsAPI.getPaymentStatus(key) leaves; origin is the caller of
\* verifyPaymentStatus, closureStatus the paymentStatus its closure holds.
Request(key, origin, closureStatus) ==
    [key |-> key, origin |-> origin, closureStatus |-> closureStatus,
     early |-> (key \in PaymentIds /\ backend[key] = "PENDING")]

Sent(q) == [inflight EXCEPT ![FirstFreeSlot] = q]

\* What can come back for a request.  backend[p] is the status of payment p
\* that the backend has reported so far: a pending payment may be reported
\* pending again or settled (the gateway's webhook has arrived meanwhile), a
\* settled one keeps its status.  A request that left while the payment was
\* pending may still be answered PENDING after the payment settled (its
\* answer was produced earlier and arrives late).  Any request may fail; one
\* for an id that names no payment order always does.
Responses(q) ==
    {"ERROR"}
        \cup (IF q.key \notin PaymentIds \/ backend[q.key] = "NONE" THEN {}
              ELSE IF backend[q.key] = "PENDING"
                   THEN {"PENDING", "COMPLETED", "FAILED"}
                   ELSE {backend[q.key]})
        \cup (IF q.early THEN {"PENDING"} ELSE {})

\* The backend's reported statuses once resp has come back for request q.
Reported(q, resp) ==
    IF resp \in {"COMPLETED", "FAILED"}
    THEN [backend EXCEPT ![q.key] = resp]
    ELSE backend

\* Variant of SetState in which the update is lost (C29 fails with it).
SetStateLost(new, old) == old

\* A setState call: React ignores it once the component is unmounted.
SetState(new, old) == IF mounted THEN new ELSE old

InitialInflight == [s \in Slots |-> NoReq]


\* ------------------------------------------------- values of the shell

NoCall == [none |-> TRUE]

ApiSlots == 1..MaxApiCalls

SdkLoadIds == 1..MaxSdkLoads

NoLoad == [pc |-> "none", by |-> "nobody", live |-> FALSE, handle |-> 0]

WithLoadingCalls == 1..MaxWithLoading

\* A user is logged in, no call is in flight, no page that uses the SDK has
\* been mounted, nothing is loading.
ShellInit ==
    /\ authToken = TRUE
    /\ storedUser = TRUE
    /\ pathname = "/book-appointment"
    /\ apiCalls = [s \in ApiSlots |-> NoCall]
    /\ sdkPage = "none"
    /\ cashfreeInstance = 0
    /\ sdkLoads = 0
    /\ sdkCalls = [n \in SdkLoadIds |-> NoLoad]
    /\ sdkHandles = {}
    /\ isProcessing = FALSE
    /\ loadingCount = 0
    /\ isLoading = FALSE
    /\ withPromises = [p \in WithLoadingCalls |-> "none"]

\* -------------------------------------------------------------------- Init

\* The booking page has just been loaded for the first time: nothing is
\* stored, nothing has been submitted.
Init ==
    /\ now = 0
    /\ store = NoRecord
    /\ backend = [p \in PaymentIds |-> "NONE"]
    /\ mounted = TRUE
    /\ location = "/book-appointment"
    /\ paymentState = NoRecord
    /\ paymentStatus = "idle"
    /\ verificationError = "null"
    /\ isSubmitting = FALSE
    /\ intervalRef = 0
    /\ timers = {}
    /\ inflight = InitialInflight
    /\ submit = IdleSubmit
    /\ navPending = FALSE
    /\ mountCheck = "none"
    /\ successFor = 0
    /\ exhaustedAfter = 0
    /\ userActions = 0
    /\ nextId = 1
    /\ ShellInit

\* ----------------------------------------------------- mount and unmount

\* The page is loaded (first visit, reload, return from the hosted checkout)
\* and the component mounts; the mount effect runs checkPendingPayment up to
\* its await.  urlStatus is what the URL's query string says of the payment,
\* t the time of the load: the clock is read by the mount check and when a
\* record is created, and the model lets it advance between page lifetimes.
PageLoad(urlStatus, t) ==
    /\ userActions < MaxUserActions
    /\ userActions' = userActions + 1
    /\ t \in Instants
    /\ t >= now
    /\ now' = t
    /\ mounted' = TRUE
    /\ location' = "/book-appointment"
    /\ timers' = {}
    /\ intervalRef' = 0
    /\ submit' = IdleSubmit
    /\ navPending' = FALSE
    /\ isSubmitting' = FALSE
    /\ verificationError' = "null"
    /\ successFor' = 0
    /\ exhaustedAfter' = 0
    /\ IF store = NoRecord
       THEN /\ mountCheck' = "none"
            /\ store' = store
            /\ paymentState' = NoRecord
            /\ paymentStatus' = StatusOnLoad(urlStatus)
            /\ inflight' = InitialInflight
       ELSE IF IsStale(store, t)
       THEN /\ mountCheck' = "stale"
            /\ store' = NoRecord
            /\ paymentState' = NoRecord
            /\ paymentStatus' = StatusOnLoad(urlStatus)
            /\ inflight' = InitialInflight
       ELSE /\ mountCheck' = "resumed"
            /\ store' = store
            /\ paymentState' = store
            /\ paymentStatus' = "verifying"
            /\ inflight' = [InitialInflight EXCEPT
                              ![1] = Request(StatusQueryKey(store), "mount", "n/a")]
    /\ UNCHANGED <<backend, nextId>>
    /\ UNCHANGED shellVars

\* The cleanup of the unmount effect, and React dropping the component's
\* state: the timer the ref names is cancelled, the ref is left as it is.
Unmounted ==
    /\ mounted' = FALSE
    /\ timers' = ClearInterval(timers, intervalRef)
    /\ paymentState' = NoRecord
    /\ paymentStatus' = "idle"
    /\ verificationError' = "null"
    /\ isSubmitting' = FALSE
    /\ successFor' = 0

\* Variant of Unmount whose cleanup also removes the stored record (C16
\* fails with it).
UnmountClearingRecord ==
    /\ mounted
    /\ Unmounted
    /\ location' = "/elsewhere"
    /\ store' = NoRecord
    /\ UNCHANGED <<now, backend, intervalRef, inflight, submit,
                   navPending, mountCheck, exhaustedAfter, userActions, nextId>>
    /\ UNCHANGED shellVars

\* The user leaves the booking page for another route of the application.
Unmount ==
    /\ mounted
    /\ Unmounted
    /\ location' = "/elsewhere"
    /\ UNCHANGED <<now, store, backend, intervalRef, inflight, submit,
                   navPending, mountCheck, exhaustedAfter, userActions, nextId>>
    /\ UNCHANGED shellVars

\* The timeout armed by verifyPaymentStatus on COMPLETED fires.
NavigateToAppointments ==
    /\ navPending
    /\ navPending' = FALSE
    /\ location' = "/my-appointments"
    /\ IF mounted
       THEN Unmounted
       ELSE UNCHANGED <<mounted, timers, paymentState, paymentStatus,
                        verificationError, isSubmitting, successFor>>
    /\ UNCHANGED <<now, store, backend, intervalRef, inflight, submit,
                   mountCheck, exhaustedAfter, userActions, nextId>>
    /\ UNCHANGED shellVars

\* ------------------------------------------------------------ handleSubmit

\* The submit button can be pressed.
CanSubmit ==
    /\ mounted
    /\ ~SubmitDisabled

\* Variant of SubmitCatch that sends the booking-create request again (C20
\* fails with it).
SubmitCatchRetrying ==
    /\ paymentStatus' = SetState("failed", paymentStatus)
    /\ store' = NoRecord
    /\ paymentState' = SetState(NoRecord, paymentState)
    /\ timers' = ClearInterval(timers, intervalRef)
    /\ intervalRef' = 0
    /\ isSubmitting' = isSubmitting
    /\ submit' = [submit EXCEPT !.pc = "booking"]

\* The catch and finally blocks of handleSubmit's outer try.
SubmitCatch ==
    /\ paymentStatus' = SetState("failed", paymentStatus)
    /\ store' = NoRecord
    /\ paymentState' = SetState(NoRecord, paymentState)
    /\ timers' = ClearInterval(timers, intervalRef)
    /\ intervalRef' = 0
    /\ isSubmitting' = SetState(FALSE, isSubmitting)
    /\ submit' = IdleSubmit

\* The form does not pass bookingSchema: the field errors are shown.
SubmitInvalid ==
    /\ CanSubmit
    /\ verificationError' = "null"
    /\ UNCHANGED <<now, store, backend, mounted, location, paymentState,
                   paymentStatus, isSubmitting, intervalRef, timers, inflight,
                   submit, navPending, mountCheck, successFor, exhaustedAfter,
                   userActions, nextId>>
    /\ UNCHANGED shellVars

\* The user is not logged in: navigate("/login") unmounts the page.
SubmitUnauthenticated ==
    /\ CanSubmit
    /\ Unmounted
    /\ location' = "/login"
    /\ UNCHANGED <<now, store, backend, intervalRef, inflight, submit,
                   navPending, mountCheck, exhaustedAfter, userActions, nextId>>
    /\ UNCHANGED shellVars

\* The hospital or doctor typed matches no entry: the throw of line 323.
SubmitBadSelection ==
    /\ CanSubmit
    /\ verificationError' = "null"
    /\ SubmitCatch
    /\ UNCHANGED <<now, backend, mounted, location, inflight, navPending,
                   mountCheck, successFor, exhaustedAfter, userActions, nextId>>
    /\ UNCHANGED shellVars

\* The form is valid: the booking-create request leaves (step 1).
SubmitBooking(bookingType) ==
    /\ CanSubmit
    /\ userActions < MaxUserActions
    /\ userActions' = userActions + 1
    /\ verificationError' = "null"
    /\ isSubmitting' = TRUE
    /\ submit' = [pc |-> "booking", n |-> nextId, bookingType |-> bookingType,
                  bookingId |-> 0]
    /\ nextId' = nextId + 1
    /\ UNCHANGED <<now, store, backend, mounted, location, paymentState,
                   paymentStatus, intervalRef, timers, inflight, navPending,
                   mountCheck, successFor, exhaustedAfter>>
    /\ UNCHANGED shellVars

\* The booking call returns; on success the createOrder request leaves
\* (step 2).
BookingReturns(ok) ==
    /\ submit.pc = "booking"
    /\ IF ok
       THEN /\ submit' = [submit EXCEPT !.pc = "order",
                                        !.bookingId = BookingIdFor(submit.n)]
            /\ UNCHANGED <<paymentStatus, store, paymentState, timers,
                           intervalRef, isSubmitting>>
       ELSE SubmitCatch
    /\ UNCHANGED <<now, backend, mounted, location, verificationError,
                   inflight, navPending, mountCheck, successFor,
                   exhaustedAfter, userActions, nextId>>
    /\ UNCHANGED shellVars

\* createOrder returns: with a session id ("ok"), without one ("nosession")
\* or with an error.  With a session id the record is kept in memory and in
\* the store (step 3) and the SDK is awaited (step 4).
OrderReturns(result) ==
    /\ submit.pc = "order"
    /\ result \in {"ok", "nosession", "error"}
    /\ IF HasSession(result)
       THEN LET rec == PendingStateFor(submit.n, submit.bookingType, now) IN
            /\ backend' = [backend EXCEPT ![PaymentIdFor(submit.n)] = "PENDING"]
            /\ paymentState' = SetState(rec, paymentState)
            /\ store' = rec
            /\ submit' = [submit EXCEPT !.pc = "load"]
            /\ UNCHANGED <<paymentStatus, timers, intervalRef, isSubmitting>>
       ELSE /\ SubmitCatch
            /\ UNCHANGED backend
    /\ UNCHANGED <<now, mounted, location, verificationError, inflight,
                   navPending, mountCheck, successFor, exhaustedAfter,
                   userActions, nextId>>
    /\ UNCHANGED shellVars

\* await load() settles.  Loaded: checkout is opened, the status becomes
\* pending and startPaymentVerification(orderData.payment_id) runs.  Not
\* loaded, or checkout throws: the inner catch.
LoadReturns(ok) ==
    /\ submit.pc = "load"
    /\ IF ok
       THEN /\ paymentStatus' = SetState(StatusAfterCheckout, paymentStatus)
            /\ timers' = StartedTimers(timers, intervalRef, PaymentIdFor(submit.n))
            /\ intervalRef' = FreshTimerId(timers, intervalRef)
            /\ exhaustedAfter' = 0
            /\ UNCHANGED <<verificationError, store, paymentState>>
       ELSE /\ paymentStatus' = SetState(StatusAfterCheckoutError, paymentStatus)
            /\ verificationError' = SetState("init_failed", verificationError)
            /\ store' = NoRecord
            /\ paymentState' = SetState(NoRecord, paymentState)
            /\ timers' = ClearInterval(timers, intervalRef)
            /\ intervalRef' = 0
            /\ UNCHANGED exhaustedAfter
    /\ isSubmitting' = SetState(FALSE, isSubmitting)
    /\ submit' = IdleSubmit
    /\ UNCHANGED <<now, backend, mounted, location, inflight, navPending,
                   mountCheck, successFor, userActions, nextId>>
    /\ UNCHANGED shellVars

\* ------------------------------------------------- polling and verification

\* One firing of the interval callback of startPaymentVerification, up to
\* the await inside verifyPaymentStatus.
Tick(t) ==
    /\ t \in timers
    /\ FreeSlots # {}
    /\ Cardinality(Slots \ FreeSlots) <= Overlap(t.pollCount)
    /\ LET count  == t.pollCount + 1
           ticked == (timers \ {t}) \cup {[t EXCEPT !.pollCount = count]}
       IN  IF AttemptsExhausted(count)
           THEN /\ timers' = ClearInterval(ticked, intervalRef)
                /\ intervalRef' = 0
                /\ exhaustedAfter' = count
                /\ inflight' = Sent(Request(t.pid, "final", "n/a"))
           ELSE /\ timers' = ticked
                /\ inflight' = Sent(Request(t.pid, "tick", "n/a"))
                /\ UNCHANGED <<intervalRef, exhaustedAfter>>
    /\ paymentStatus' = SetState("verifying", paymentStatus)
    /\ verificationError' = SetState("null", verificationError)
    /\ UNCHANGED <<now, store, backend, mounted, location, paymentState,
                   isSubmitting, submit, navPending, mountCheck, successFor,
                   userActions, nextId>>
    /\ UNCHANGED shellVars

\* handleRetryPayment up to the await inside verifyPaymentStatus.
RetryClick ==
    /\ mounted
    /\ RetryVisible
    /\ FreeSlots # {}
    /\ userActions < MaxUserActions
    /\ userActions' = userActions + 1
    /\ verificationError' = "null"
    /\ paymentStatus' = "verifying"
    /\ inflight' = Sent(Request(RetryQueryKey(paymentState), "retry", paymentStatus))
    /\ UNCHANGED <<now, store, backend, mounted, location, paymentState,
                   isSubmitting, intervalRef, timers, submit, navPending,
                   mountCheck, successFor, exhaustedAfter, nextId>>
    /\ UNCHANGED shellVars

\* The status request of slot s settles with resp: the rest of
\* verifyPaymentStatus, then the rest of its caller.
StatusReturns(s, resp) ==
    /\ inflight[s] # NoReq
    /\ resp \in Responses(inflight[s])
    /\ LET q       == inflight[s]
           v       == VerifyOutcome(resp)
           \* clearPaymentState
           cleared == IF v.clear THEN ClearInterval(timers, intervalRef) ELSE timers
           ref     == IF v.clear THEN 0 ELSE intervalRef
           \* the interval callback: if (verified) clearInterval(...)
           stopped == q.origin = "tick" /\ v.verified
           \* handleRetryPayment: if (!verified && paymentStatus !== "success")
           restart == /\ q.origin = "retry"
                      /\ ~v.verified
                      /\ q.closureStatus # "success"
           \* the final attempt: if (!verified) setVerificationError(...)
           timeout == q.origin = "final" /\ ~v.verified
       IN  /\ paymentStatus' = SetState(v.status, paymentStatus)
           /\ verificationError' =
                 SetState(IF timeout THEN "timed_out"
                          ELSE IF v.error = "keep" THEN verificationError
                          ELSE v.error,
                          verificationError)
           /\ store' = IF v.clear THEN NoRecord ELSE store
           /\ paymentState' = IF v.clear THEN SetState(NoRecord, paymentState)
                              ELSE paymentState
           /\ navPending' = (navPending \/ v.verified)
           /\ successFor' = IF v.verified /\ mounted THEN q.key ELSE successFor
           /\ timers' = IF restart THEN StartedTimers(cleared, ref, q.key)
                        ELSE IF stopped THEN ClearInterval(cleared, ref)
                        ELSE cleared
           /\ intervalRef' = IF restart THEN FreshTimerId(cleared, ref)
                             ELSE IF stopped THEN 0
                             ELSE ref
           /\ exhaustedAfter' = IF restart THEN 0 ELSE exhaustedAfter
    /\ inflight' = [inflight EXCEPT ![s] = NoReq]
    /\ backend' = Reported(inflight[s], resp)
    /\ UNCHANGED <<now, mounted, location, isSubmitting, submit, mountCheck,
                   userActions, nextId>>
    /\ UNCHANGED shellVars

\* -------------------------------------------------------------------- Next

Next ==
    \/ \E urlStatus \in {"none", "SUCCESS", "FAILED"}, t \in Instants :
          PageLoad(urlStatus, t)
    \/ Unmount
    \/ NavigateToAppointments
    \/ SubmitInvalid
    \/ SubmitUnauthenticated
    \/ SubmitBadSelection
    \/ \E bookingType \in BookingTypes : SubmitBooking(bookingType)
    \/ \E ok \in BOOLEAN : BookingReturns(ok)
    \/ \E result \in {"ok", "nosession", "error"} : OrderReturns(result)
    \/ \E ok \in BOOLEAN : LoadReturns(ok)
    \/ \E t \in timers : Tick(t)
    \/ RetryClick
    \/ \E s \in Slots, resp \in {"PENDING", "COMPLETED", "FAILED", "ERROR"} :
          StatusReturns(s, resp)

Spec == Init /\ [][Next]_vars

\* ------------------------------------------ the session and backend calls

\* A backend call as sent: by the axios client or by the fetch helper, with
\* the bearer token if one was stored when it left.
ApiCall(via) == [none |-> FALSE, via |-> via, bearer |-> authToken]

\* window.location.href = ...: the document is replaced, and the calls the
\* old one was waiting for have nobody left to answer to.
LocationAssigned(path) ==
    /\ pathname' = path
    /\ apiCalls' = [s \in ApiSlots |-> NoCall]

\* authAPI.login: the token of the response is stored, and the user with it.
Login ==
    /\ ~authToken
    /\ authToken' = TRUE
    /\ storedUser' = TRUE
    /\ UNCHANGED <<pathname, apiCalls>>
    /\ UNCHANGED <<vars, sdkVars, loadingVars>>

\* authAPI.logout: token and user are removed and the login page is loaded.
Logout ==
    /\ authToken
    /\ authToken' = FALSE
    /\ storedUser' = FALSE
    /\ LocationAssigned("/login")
    /\ UNCHANGED <<vars, sdkVars, loadingVars>>

\* The user opens another page of the application.
Visit(path) ==
    /\ pathname # path
    /\ pathname' = path
    /\ UNCHANGED <<authToken, storedUser, apiCalls>>
    /\ UNCHANGED <<vars, sdkVars, loadingVars>>

\* A call through apiClient leaves; the request interceptor attaches the
\* token.
ClientCall(s) ==
    /\ apiCalls[s] = NoCall
    /\ apiCalls' = [apiCalls EXCEPT ![s] = ApiCall("apiClient")]
    /\ UNCHANGED <<authToken, storedUser, pathname>>
    /\ UNCHANGED <<vars, sdkVars, loadingVars>>

\* The response interceptor of apiClient: a 401 removes token and user and,
\* anywhere but on the login page, loads the login page.
ClientReturns(s, status) ==
    /\ apiCalls[s] # NoCall
    /\ apiCalls[s].via = "apiClient"
    /\ IF status = 401
       THEN /\ authToken' = FALSE
            /\ storedUser' = FALSE
            /\ IF pathname # "/login"
               THEN LocationAssigned("/login")
               ELSE /\ apiCalls' = [apiCalls EXCEPT ![s] = NoCall]
                    /\ UNCHANGED pathname
       ELSE /\ apiCalls' = [apiCalls EXCEPT ![s] = NoCall]
            /\ UNCHANGED <<authToken, storedUser, pathname>>
    /\ UNCHANGED <<vars, sdkVars, loadingVars>>

\* A call through apiRequest leaves, with the token in its headers.
RequestCall(s) ==
    /\ apiCalls[s] = NoCall
    /\ apiCalls' = [apiCalls EXCEPT ![s] = ApiCall("apiRequest")]
    /\ UNCHANGED <<authToken, storedUser, pathname>>
    /\ UNCHANGED <<vars, sdkVars, loadingVars>>

\* apiRequest: a response that is not ok throws an Error carrying the
\* message of the body, whatever its status; localStorage is not touched.
RequestReturns(s, status) ==
    /\ apiCalls[s] # NoCall
    /\ apiCalls[s].via = "apiRequest"
    /\ apiCalls' = [apiCalls EXCEPT ![s] = NoCall]
    /\ UNCHANGED <<authToken, storedUser, pathname>>
    /\ UNCHANGED <<vars, sdkVars, loadingVars>>

NextAuth ==
    \/ Login
    \/ Logout
    \/ \E path \in {"/login", "/book-appointment", "/payments"} : Visit(path)
    \/ \E s \in ApiSlots : ClientCall(s)
    \/ \E s \in ApiSlots, status \in {200, 401, 500} : ClientReturns(s, status)
    \/ \E s \in ApiSlots : RequestCall(s)
    \/ \E s \in ApiSlots, status \in {200, 401, 500} : RequestReturns(s, status)

SpecAuth == Init /\ [][NextAuth]_<<vars, shellVars>>

\* ------------------------------------------------------- the checkout SDK

\* load() is called on behalf of by: the call takes the next number and
\* waits for the script.
LoadCalled(by, calls) ==
    [calls EXCEPT ![sdkLoads + 1] =
        [pc |-> "pending", by |-> by, live |-> TRUE, handle |-> 0]]

\* The components that were waiting are unmounted; their awaits go on.
Orphaned(calls) == [n \in SdkLoadIds |-> [calls[n] EXCEPT !.live = FALSE]]

\* Mounting the page at path.  The booking page's effect calls load() and
\* drops what it gets; the payments page calls nothing until asked.
PageMounted(path, calls) ==
    /\ sdkPage' = path
    /\ isProcessing' = FALSE
    /\ IF path = "/book-appointment"
       THEN /\ sdkLoads < MaxSdkLoads
            /\ sdkLoads' = sdkLoads + 1
            /\ sdkCalls' = LoadCalled("loadCashfree", calls)
       ELSE /\ sdkLoads' = sdkLoads
            /\ sdkCalls' = calls

\* The document is loaded at path: module state starts over, and nothing
\* of the old document is left waiting.
DocumentLoad(path) ==
    /\ cashfreeInstance' = 0
    /\ sdkHandles' = {}
    /\ sdkPage' = path
    /\ isProcessing' = FALSE
    /\ IF path = "/book-appointment"
       THEN /\ sdkLoads' = 1
            /\ sdkCalls' = [n \in SdkLoadIds |->
                   IF n = 1
                   THEN [pc |-> "pending", by |-> "loadCashfree",
                         live |-> TRUE, handle |-> 0]
                   ELSE NoLoad]
       ELSE /\ sdkLoads' = 0
            /\ sdkCalls' = [n \in SdkLoadIds |-> NoLoad]
    /\ UNCHANGED <<vars, authVars, loadingVars>>

\* The router shows another page of the same document.
Route(path) ==
    /\ sdkPage \notin {"none", path}
    /\ PageMounted(path, Orphaned(sdkCalls))
    /\ UNCHANGED <<cashfreeInstance, sdkHandles>>
    /\ UNCHANGED <<vars, authVars, loadingVars>>

\* handleSubmit of the booking page has its order and calls load() itself.
SubmitLoad ==
    /\ sdkPage = "/book-appointment"
    /\ \A n \in SdkLoadIds :
          ~(sdkCalls[n].pc = "pending" /\ sdkCalls[n].by = "handleSubmit"
            /\ sdkCalls[n].live)
    /\ sdkLoads < MaxSdkLoads
    /\ sdkLoads' = sdkLoads + 1
    /\ sdkCalls' = LoadCalled("handleSubmit", sdkCalls)
    /\ UNCHANGED <<sdkPage, cashfreeInstance, sdkHandles, isProcessing>>
    /\ UNCHANGED <<vars, authVars, loadingVars>>

\* openCashfreeCheckout of the payments page: getCashfree returns the
\* instance if there is one, and calls load() if there is none.
OpenCheckout ==
    /\ sdkPage = "/payments"
    /\ ~isProcessing
    /\ isProcessing' = TRUE
    /\ IF cashfreeInstance # 0
       THEN /\ sdkHandles' = sdkHandles \cup {cashfreeInstance}
            /\ UNCHANGED <<sdkLoads, sdkCalls>>
       ELSE /\ sdkLoads < MaxSdkLoads
            /\ sdkLoads' = sdkLoads + 1
            /\ sdkCalls' = LoadCalled("getCashfree", sdkCalls)
            /\ UNCHANGED sdkHandles
    /\ UNCHANGED <<sdkPage, cashfreeInstance>>
    /\ UNCHANGED <<vars, authVars, loadingVars>>

\* Call n of load() settles.  A handle is what the library gives: the
\* object of this call, or the one it gave the first time.  getCashfree
\* stores it; handleSubmit and openCashfreeCheckout check out with it; a
\* failure is caught, and the payments page stops processing.
LoadSettles(n, ok, fresh) ==
    /\ sdkCalls[n].pc = "pending"
    /\ LET h == IF fresh THEN n ELSE 1
           call == sdkCalls[n]
       IN  /\ sdkCalls' = [sdkCalls EXCEPT
                  ![n] = [call EXCEPT !.pc = IF ok THEN "done" ELSE "failed",
                                      !.handle = IF ok THEN h ELSE 0]]
           /\ cashfreeInstance' =
                  IF ok /\ call.by = "getCashfree" THEN h ELSE cashfreeInstance
           /\ sdkHandles' =
                  IF ok /\ call.by \in {"getCashfree", "handleSubmit"}
                  THEN sdkHandles \cup {h}
                  ELSE sdkHandles
           /\ isProcessing' =
                  IF ~ok /\ call.by = "getCashfree" /\ call.live
                  THEN FALSE
                  ELSE isProcessing
    /\ UNCHANGED <<sdkPage, sdkLoads>>
    /\ UNCHANGED <<vars, authVars, loadingVars>>

NextSdk ==
    \/ \E path \in {"/book-appointment", "/payments"} : DocumentLoad(path)
    \/ \E path \in {"/book-appointment", "/payments"} : Route(path)
    \/ SubmitLoad
    \/ OpenCheckout
    \/ \E n \in SdkLoadIds, ok \in BOOLEAN, fresh \in BOOLEAN :
          LoadSettles(n, ok, fresh)

SpecSdk == Init /\ [][NextSdk]_<<vars, shellVars>>

\* ------------------------------------------------- the loading counter

\* The updater of setLoading: one up, or one down and not below zero.
CountAfter(loading, prev) ==
    IF loading THEN prev + 1 ELSE IF prev - 1 > 0 THEN prev - 1 ELSE 0

\* setLoading(loading), by whoever holds the context.
SetLoadingTo(loading) ==
    /\ loadingCount' = CountAfter(loading, loadingCount)
    /\ isLoading' = (CountAfter(loading, loadingCount) > 0)

\* A component calls setLoading outside withLoading.
SetLoading(loading) ==
    /\ loading => loadingCount < MaxLoadingCount
    /\ SetLoadingTo(loading)
    /\ UNCHANGED withPromises
    /\ UNCHANGED <<vars, authVars, sdkVars>>

\* withLoading(promise) is called: setLoading(true), then the await.
WithLoadingStart(p) ==
    /\ withPromises[p] = "none"
    /\ loadingCount < MaxLoadingCount
    /\ SetLoadingTo(TRUE)
    /\ withPromises' = [withPromises EXCEPT ![p] = "pending"]
    /\ UNCHANGED <<vars, authVars, sdkVars>>

\* The promise settles and the finally block runs setLoading(false).
WithLoadingSettle(p, ok) ==
    /\ withPromises[p] = "pending"
    /\ SetLoadingTo(FALSE)
    /\ withPromises' =
           [withPromises EXCEPT ![p] = IF ok THEN "resolved" ELSE "rejected"]
    /\ UNCHANGED <<vars, authVars, sdkVars>>

NextLoading ==
    \/ \E loading \in BOOLEAN : SetLoading(loading)
    \/ \E p \in WithLoadingCalls : WithLoadingStart(p)
    \/ \E p \in WithLoadingCalls, ok \in BOOLEAN : WithLoadingSettle(p, ok)

SpecLoading == Init /\ [][NextLoading]_<<vars, shellVars>>

\* ------------------------------------------------------------- properties

NoneInFlight == \A s \in Slots : inflight[s] = NoReq

\* The status request of slot s, issued by origin, settles with resp.
Returned(s, resp, origin) ==
    /\ StatusReturns(s, resp)
    /\ inflight[s].origin = origin

\* The step sends exactly one status request, for payment id key.
SendsOneQuery(key) ==
    \E s \in Slots :
        /\ inflight[s] = NoReq
        /\ inflight'[s] # NoReq
        /\ inflight'[s].key = key
        /\ \A u \in Slots \ {s} : inflight'[u] = inflight[u]

C2_TimeoutMeansFailed ==
    [][\A s \in Slots :
          (Returned(s, "PENDING", "final") /\ mounted)
              => (paymentStatus' = "failed" /\ verificationError' = "timed_out")]_vars

\* C3 (terminal clears store).  Whenever a status query returns COMPLETED or
\* FAILED, whoever issued it, the store holds no record and the in-memory
\* record is null once the response has been handled.
C3_TerminalClearsStore ==
    [][\A s \in Slots, resp \in {"COMPLETED", "FAILED"} :
          StatusReturns(s, resp)
              => (store' = NoRecord /\ paymentState' = NoRecord)]_vars

\* A resumed record's query was answered FAILED and the record is gone.
C3_Witness ==
    /\ mountCheck = "resumed"
    /\ mounted
    /\ paymentStatus = "failed"
    /\ verificationError = "payment_failed"
    /\ store = NoRecord
    /\ paymentState = NoRecord

\* C4 (at most one unresolved payment), as claimed: no booking-create
\* request is issued while a record is held and paymentStatus is pending or
\* verifying.
C4_NoSubmitWhileUnresolved ==
    [][\A bookingType \in BookingTypes :
          SubmitBooking(bookingType)
              => ~(store # NoRecord /\ paymentStatus \in {"pending", "verifying"})]_vars

\* C5 (never trust the client).  paymentStatus becomes success only in the
\* step in which a status query comes back COMPLETED from the backend: not on
\* page load whatever the URL says, not when checkout returns.
C5_SuccessOnlyFromBackend ==
    [][(paymentStatus' = "success" /\ paymentStatus # "success")
          => \E s \in Slots :
                /\ StatusReturns(s, "COMPLETED")
                /\ backend'[inflight[s].key] = "COMPLETED"]_vars

\* The page shows success for a payment the backend reported COMPLETED.
C5_Witness ==
    /\ mounted
    /\ paymentStatus = "success"
    /\ successFor \in PaymentIds

\* C6 (resume continues polling), as claimed: when the query issued on
\* resume is answered PENDING, a polling timer is running afterwards.
C6_ResumeKeepsPolling ==
    [][\A s \in Slots :
          (Returned(s, "PENDING", "mount") /\ mounted) => timers' # {}]_vars

\* C7 (resume on mount).  A page load that finds a record younger than 24
\* hours sets verifying and sends one status query, keyed by the record's
\* paymentId and not by its paymentSessionId; when that query comes back
\* COMPLETED the status becomes success, the store is cleared and the
\* navigation to the appointments list is armed, and it leads there.
C7_ResumeOnMount ==
    [][/\ \A urlStatus \in {"none", "SUCCESS", "FAILED"}, t \in Instants :
             (/\ PageLoad(urlStatus, t)
              /\ store # NoRecord
              /\ t - store.timestamp < StaleAfterMs)
                 => /\ paymentStatus' = "verifying"
                    /\ paymentState' = store
                    /\ inflight'[1] # NoReq
                    /\ inflight'[1].key = store.paymentId
                    /\ inflight'[1].key # store.paymentSessionId
                    /\ \A u \in Slots \ {1} : inflight'[u] = NoReq
       /\ \A s \in Slots :
             (Returned(s, "COMPLETED", "mount") /\ mounted)
                 => /\ paymentStatus' = "success"
                    /\ store' = NoRecord
                    /\ navPending'
       /\ NavigateToAppointments => location' = "/my-appointments"]_vars

\* A resumed record was verified and the page went to the appointments list.
C7_Witness ==
    /\ mountCheck = "resumed"
    /\ backend[PaymentIdFor(1)] = "COMPLETED"
    /\ store = NoRecord
    /\ location = "/my-appointments"

C9_SuccessIsTerminal ==
    [][\A s \in Slots, resp \in {"PENDING", "COMPLETED", "FAILED", "ERROR"} :
          (/\ StatusReturns(s, resp)
           /\ mounted
           /\ paymentStatus = "success"
           /\ inflight[s].key = successFor)
              => paymentStatus' = "success"]_vars

\* C10 (no polling after a terminal answer), as claimed: once a status query
\* has come back COMPLETED or FAILED, whoever issued it, no polling timer is
\* active (stated for a mounted page with no submission under way).
C10_NoTimerAfterTerminal ==
    [][\A s \in Slots, resp \in {"COMPLETED", "FAILED"} :
          (StatusReturns(s, resp) /\ mounted /\ submit.pc = "idle")
              => timers' = {}]_vars

\* C11 (record deletion is restricted), as claimed: a record whose payment
\* the backend has not reported COMPLETED or FAILED leaves the store, or is
\* replaced in it, only in the step that handles a COMPLETED or FAILED answer
\* for its payment or in a page load that finds it stale (stated for the
\* record of an earlier submission than the one under way, if any).
C11_RecordDeletionRestricted ==
    [][(/\ store # NoRecord
        /\ store' # store
        /\ backend[store.paymentId] = "PENDING"
        /\ store.paymentId # PaymentIdFor(submit.n))
          => \/ \E s \in Slots, resp \in {"COMPLETED", "FAILED"} :
                   /\ StatusReturns(s, resp)
                   /\ inflight[s].key = store.paymentId
             \/ \E urlStatus \in {"none", "SUCCESS", "FAILED"}, t \in Instants :
                   /\ PageLoad(urlStatus, t)
                   /\ IsStale(store, t)]_vars

\* C12 (non-terminal outcomes keep the record).  A status query that is
\* answered PENDING, or whose request fails, leaves the store as it was,
\* whoever issued it; and when the page is mounted and a record is stored,
\* one of the two buttons of handleRetryPayment is shown afterwards.
C12_NonTerminalKeepsRecord ==
    [][\A s \in Slots, resp \in {"PENDING", "ERROR"} :
          StatusReturns(s, resp)
              => /\ store' = store
                 /\ (mounted /\ store # NoRecord) => RetryVisible']_vars

\* A status request failed, the record is still stored and in memory, and
\* the retry button is shown.
C12_Witness ==
    /\ mounted
    /\ paymentStatus = "failed"
    /\ verificationError = "request_error"
    /\ store # NoRecord
    /\ paymentState = store
    /\ RetryVisible
    /\ NoneInFlight

\* C13 (transient errors are retried by the schedule).  When a status request
\* issued by a tick of the polling timer fails, the timers and the ref are as
\* before (the timer is not cancelled and keeps its count), no status request
\* is issued in the same step, and the record stays; every tick adds one to
\* the timer's count whatever became of the earlier requests, so that the
\* failed ones count toward the bound of C1.
C13_ErrorsLeaveSchedule ==
    [][/\ \A s \in Slots :
             Returned(s, "ERROR", "tick")
                 => /\ timers' = timers
                    /\ intervalRef' = intervalRef
                    /\ inflight' = [inflight EXCEPT ![s] = NoReq]
                    /\ store' = store
       /\ \A t \in timers :
             Tick(t) => \A u \in timers' :
                           u.id = t.id => u.pollCount = t.pollCount + 1]_vars

\* After one submission and nothing else from the user, a request of the
\* timer has failed and the timer is still running, two ticks into its count.
C13_Witness ==
    /\ mounted
    /\ userActions = 1
    /\ nextId = 2
    /\ paymentStatus = "failed"
    /\ verificationError = "request_error"
    /\ NoneInFlight
    /\ \E t \in timers : t.pollCount >= 2 /\ t.id = intervalRef

C15_NoTimerWhileUnmounted ==
    [][\A s \in Slots, resp \in {"PENDING", "COMPLETED", "FAILED", "ERROR"} :
          (StatusReturns(s, resp) /\ ~mounted /\ timers = {} /\ submit.pc = "idle")
              => timers' = {}]_vars

\* C16 (unmount keeps the record).  A step that unmounts the booking page
\* (the user leaves for another route, is sent to the login page, or the
\* page moves on to the appointments list) leaves the store as it was; and a
\* page load that follows, finding the record not older than the limit,
\* takes it into memory and queries the status of its paymentId.
C16_UnmountKeepsRecord ==
    [][/\ (mounted /\ ~mounted') => store' = store
       /\ \A urlStatus \in {"none", "SUCCESS", "FAILED"}, t \in Instants :
             (/\ PageLoad(urlStatus, t)
              /\ ~mounted
              /\ store # NoRecord
              /\ t - store.timestamp <= StaleAfterMs)
                 => /\ store' = store
                    /\ paymentState' = store
                    /\ inflight'[1] # NoReq
                    /\ inflight'[1].key = store.paymentId]_vars

\* The user has left the booking page while a payment was unresolved: the
\* record is still stored.
C16_Witness ==
    /\ ~mounted
    /\ location = "/elsewhere"
    /\ store # NoRecord
    /\ backend[store.paymentId] = "PENDING"

\* C17 (manual retry creates nothing).  handleRetryPayment runs only with a
\* record in memory; it sends exactly one status request, for the paymentId
\* of that record, which is the stored one; it sends no booking-create and no
\* createOrder request and leaves the store alone; and when its request has
\* settled, a timer it starts polls the same paymentId.
C17_RetryCreatesNothing ==
    [][/\ RetryClick
             => /\ paymentState # NoRecord
                /\ paymentState = store
                /\ SendsOneQuery(store.paymentId)
                /\ submit' = submit
                /\ nextId' = nextId
                /\ store' = store
       /\ \A s \in Slots, resp \in {"PENDING", "COMPLETED", "FAILED", "ERROR"} :
             Returned(s, resp, "retry")
                 => /\ submit' = submit
                    /\ nextId' = nextId
                    /\ \A t \in timers' \ timers : t.pid = inflight[s].key]_vars

\* A retry's status request is in flight for the stored paymentId and no
\* submission is under way.
C17_Witness ==
    /\ mounted
    /\ submit = IdleSubmit
    /\ store # NoRecord
    /\ \E s \in Slots :
          /\ inflight[s] # NoReq
          /\ inflight[s].origin = "retry"
          /\ inflight[s].key = store.paymentId

\* C18 (ordering within one submission), as claimed, its last part: while a
\* submission has stored its record and has not yet opened checkout (it is
\* awaiting the checkout SDK), no status request for its payment is issued
\* on the page that runs it.
C18_NoQueryBeforeCheckout ==
    [][\A s \in Slots :
          (/\ submit.pc = "load"
           /\ submit' = submit
           /\ inflight[s] = NoReq
           /\ inflight'[s] # NoReq)
              => inflight'[s].key # PaymentIdFor(submit.n)]_vars

C20_NoBookingRetry ==
    [][/\ (submit'.pc = "booking" /\ submit' # submit)
             => /\ \E bookingType \in BookingTypes : SubmitBooking(bookingType)
                /\ submit.pc = "idle"
                /\ userActions' = userActions + 1
       /\ BookingReturns(FALSE)
             => /\ submit' = IdleSubmit
                /\ nextId' = nextId
                /\ userActions' = userActions
       /\ (submit'.pc = "order" /\ submit.pc # "order") => BookingReturns(TRUE)]_vars

\* The only submission of a behaviour has ended in failure before any
\* payment order existed, and nothing of it is pending.
C20_Witness ==
    /\ mounted
    /\ userActions = 1
    /\ nextId = 2
    /\ submit = IdleSubmit
    /\ paymentStatus = "failed"
    /\ ~isSubmitting
    /\ \A p \in PaymentIds : backend[p] = "NONE"

C22_OrderWithoutSession ==
    [][/\ OrderReturns("nosession")
             => /\ store' = NoRecord
                /\ paymentState' = SetState(NoRecord, paymentState)
                /\ mounted => paymentStatus' = "failed"
                /\ timers' \subseteq timers
                /\ submit' = IdleSubmit
                /\ nextId' = nextId
                /\ backend' = backend
       /\ \A ok \in BOOLEAN :
             LoadReturns(ok) => backend[PaymentIdFor(submit.n)] # "NONE"]_vars

\* Two submissions have each ended in failed before a payment order with a
\* session existed: nothing is stored, no timer runs, nothing is pending.
C22_Witness ==
    /\ mounted
    /\ userActions = 2
    /\ nextId = 3
    /\ submit = IdleSubmit
    /\ paymentStatus = "failed"
    /\ store = NoRecord
    /\ timers = {}
    /\ NoneInFlight
    /\ \A p \in PaymentIds : backend[p] = "NONE"

\* C23 (launcher failure).  When load() or checkout() throws, the same step
\* sets paymentStatus failed and the message on a mounted page, removes the
\* record from the store and from memory, starts no timer and leaves the ref
\* null.
C23_LauncherFailure ==
    [][LoadReturns(FALSE)
          => /\ mounted => /\ paymentStatus' = "failed"
                           /\ verificationError' = "init_failed"
                           /\ paymentState' = NoRecord
             /\ store' = NoRecord
             /\ timers' \subseteq timers
             /\ intervalRef' = 0
             /\ submit' = IdleSubmit]_vars

\* The checkout of the only submission could not be opened: the page shows
\* failed with the launcher's message, nothing is stored and no timer runs,
\* although the payment order exists.
C23_Witness ==
    /\ mounted
    /\ userActions = 1
    /\ paymentStatus = "failed"
    /\ verificationError = "init_failed"
    /\ store = NoRecord
    /\ paymentState = NoRecord
    /\ timers = {}
    /\ backend[PaymentIdFor(1)] = "PENDING"

C25_UnauthorizedClearsToken ==
    [][\A s \in ApiSlots :
          (ClientReturns(s, 401) \/ RequestReturns(s, 401)) => ~authToken'
      ]_<<vars, shellVars>>

\* C26 (the checkout SDK is loaded once), as claimed: in one lifetime of
\* the document load() is called at most once, and every caller that was
\* given a handle was given the same one.
C26_SdkLoadedOnce ==
    /\ sdkLoads <= 1
    /\ Cardinality(sdkHandles) <= 1

\* C27 (a status response only affects its own payment), as claimed: when a
\* query issued for one payment is answered COMPLETED or FAILED while the
\* stored record belongs to another payment, the store and the timers are
\* left as they were.
C27_ResponseAffectsOwnPayment ==
    [][\A s \in Slots, resp \in {"COMPLETED", "FAILED"} :
          (/\ StatusReturns(s, resp)
           /\ store # NoRecord
           /\ store.paymentId # inflight[s].key)
              => /\ store' = store
                 /\ timers' = timers]_vars

\* C28 (one status query at a time), as claimed: at most one status request
\* is awaiting its response.
C28_OneQueryInFlight ==
    Cardinality({s \in Slots : inflight[s] # NoReq}) <= 1

====
